---- MODULE Spec2Model ----
(***************************************************************************)
(* Key portal of CLIProxyAPI: the restart monitor of key-portal/app.py.    *)
(* The monitor cycle (broadcast_usage_update) fetches the upstream usage   *)
(* totals, feeds them to detect_cliproxy_restart, imports the snapshot     *)
(* when a restart is detected and broadcasts the totals when they changed. *)
(* A second thread exports the snapshot file.  The upstream service        *)
(* (CLIProxyAPI) is the environment: its totals grow, it restarts, and     *)
(* each call to its management API may fail.                               *)
(***************************************************************************)
EXTENDS Integers, Sequences, FiniteSets, TLC

VARIABLES
    cliproxy_state,     \* app.py _cliproxy_state
    last_usage_state,   \* app.py _last_usage_state
    snapshot_file,      \* content of SNAPSHOT_FILE
    up,                 \* usage totals held in memory by the upstream service
    pc,                 \* position of each caller of broadcast_usage_update
    cur,                \* each caller's locals current_tokens, current_requests
    exp_pc,             \* position of the snapshot export thread
    exp_data,           \* the export thread's local data
    observed,           \* history: detect_cliproxy_restart was called
    last_call,          \* history: the call of detect_cliproxy_restart in the running cycle
    n_detected,         \* history: calls of detect_cliproxy_restart that returned True
    cyc,                \* history: the events of each caller's latest cycle
    rec,                \* history: the call of import_cliproxy_snapshot in each caller's running cycle
    exp_ret,            \* history: <<the last return value of export_cliproxy_snapshot>>
    up_restarted,       \* history: the upstream restarted since the last successful fetch
    cur_restarted,      \* history: each caller's fetch was the first after a restart
    file_old,           \* history: the snapshot in the file was exported before the last restart
    exp_old,            \* history: the export thread's data was fetched before the last restart
    key_pool_file,      \* data/key_pool.json
    user_keys_file,     \* data/user_keys.json
    user_keys_cache,    \* _user_keys_cache
    upstream_keys,      \* the api_keys the upstream accepts
    generated_keys,     \* history: the keys generate_keys.py wrote to the pool
    key_ret,            \* history: the last call of assign_key_to_user or revoke_key,
                        \* its arguments and what it returned
    stats_cache,        \* _stats_cache
    clock,              \* time.time(), in seconds
    stats_ret,          \* history: the last call of get_usage_stats_cached
    data_time,          \* history: the time at which the cached data left the upstream
    req_pc,             \* each /api/register-key request's position in assign_key_to_user
    req_pool,           \* each request's local variable pool
    req_key             \* each request's local variable api_key, then its return value

track_vars == <<up_restarted, cur_restarted, file_old, exp_old>>

key_vars == <<key_pool_file, user_keys_file, user_keys_cache, upstream_keys, key_ret,
              generated_keys>>

stats_vars == <<stats_cache, clock, stats_ret, data_time>>

req_vars == <<req_pc, req_pool, req_key>>

vars == <<cliproxy_state, last_usage_state, snapshot_file, up, pc, cur,
          exp_pc, exp_data, observed, last_call, n_detected, cyc, rec, exp_ret,
          track_vars, key_vars, stats_vars, req_vars>>

\* ---------------------------------------------------------------- bounds
MaxCount == 1
MaxRestarts == 1

Counts == 0..MaxCount

\* ---------------------------------------------------------------- values
None == "None"
Timestamp == "datetime"

Totals(t, r) == [total_tokens |-> t, total_requests |-> r]

NoFile == [status |-> "missing", total_tokens |-> 0, total_requests |-> 0]

Truncated == [status |-> "truncated", total_tokens |-> 0, total_requests |-> 0]

SnapshotOf(data) ==
    [status |-> "complete", total_tokens |-> data.total_tokens,
     total_requests |-> data.total_requests]

Callers == {"usage_broadcast"}

\* no call of detect_cliproxy_restart in the cycle
NoCall == [called |-> FALSE, first |-> FALSE, prev |-> Totals(0, 0), prev_count |-> 0,
           current_tokens |-> 0, current_requests |-> 0, ret |-> FALSE]

\* no call of import_cliproxy_snapshot in the cycle
NoImport == [called |-> FALSE, ret |-> FALSE, log |-> "", posted |-> FALSE,
             file |-> "missing", err |-> FALSE]

\* ---------------------------------------------------------------- key pool values
\* the keys generate_keys.py can put in the pool, and the identifiers of the users
MaxKeys == 2

Keys == 1..MaxKeys

Emails == {"ann", "bob"}

\* no key (None) and no owner (an absent dictionary entry)
NoKey == 0

NoEmail == ""

NoAssigned == [k \in Keys |-> NoEmail]

\* no data/key_pool.json
NoPoolFile == [exists |-> FALSE, has_unused |-> FALSE, unused |-> <<>>,
               assigned |-> NoAssigned]

\* {"version": "1.0", "users": {}, "keys": {}}
EmptyUserKeys ==
    [users |-> [e \in Emails |-> [present |-> FALSE, api_keys |-> <<>>]],
     keys |-> [k \in Keys |-> NoEmail]]

PoolEmptyMsg == "Key pool is empty, please generate more keys"

\* the sequences of distinct keys
RECURSIVE DistinctSeqs(_)
DistinctSeqs(S) ==
    {<<>>} \cup UNION {{<<k>> \o t : t \in DistinctSeqs(S \ {k})} : k \in S}

\* ---------------------------------------------------------------- usage statistics cache
\* _stats_cache["ttl"], in seconds
ttl == 5

\* the last second of the clock and the longest a call of the management API takes
MaxTime == 6

MaxLatency == 1

\* the bodies of a usage answer: None before any, {} and a dictionary with entries
NoData == "None"

EmptyData == "{}"

UsageData == "usage"

\* ---------------------------------------------------------------- detect_cliproxy_restart
Updated(st, current_tokens, current_requests) ==
    [st EXCEPT !.last_total_tokens = current_tokens,
               !.last_total_requests = current_requests,
               !.last_check_time = Timestamp]

\* variant: the restart branch returns without the "Update state" block
detect_restart_keeps_baseline(st, current_tokens, current_requests) ==
    IF st.last_check_time = None
    THEN [state |-> Updated(st, current_tokens, current_requests), ret |-> FALSE]
    ELSE IF current_tokens < st.last_total_tokens
            \/ current_requests < st.last_total_requests
         THEN [state |-> [st EXCEPT !.restart_count = @ + 1], ret |-> TRUE]
         ELSE [state |-> Updated(st, current_tokens, current_requests), ret |-> FALSE]

\* variant: "tokens_decreased and requests_decreased"
detect_restart_both_decreased(st, current_tokens, current_requests) ==
    IF st.last_check_time = None
    THEN [state |-> Updated(st, current_tokens, current_requests), ret |-> FALSE]
    ELSE IF current_tokens < st.last_total_tokens
            /\ current_requests < st.last_total_requests
         THEN [state |-> [Updated(st, current_tokens, current_requests)
                             EXCEPT !.restart_count = @ + 1],
               ret |-> TRUE]
         ELSE [state |-> Updated(st, current_tokens, current_requests), ret |-> FALSE]

\* variant: the first check returns True
detect_restart_first_reports(st, current_tokens, current_requests) ==
    IF st.last_check_time = None
    THEN [state |-> Updated(st, current_tokens, current_requests), ret |-> TRUE]
    ELSE IF current_tokens < st.last_total_tokens
            \/ current_requests < st.last_total_requests
         THEN [state |-> [Updated(st, current_tokens, current_requests)
                             EXCEPT !.restart_count = @ + 1],
               ret |-> TRUE]
         ELSE [state |-> Updated(st, current_tokens, current_requests), ret |-> FALSE]

\* variant: restart_count is not incremented
detect_restart_no_count(st, current_tokens, current_requests) ==
    IF st.last_check_time = None
    THEN [state |-> Updated(st, current_tokens, current_requests), ret |-> FALSE]
    ELSE IF current_tokens < st.last_total_tokens
            \/ current_requests < st.last_total_requests
         THEN [state |-> Updated(st, current_tokens, current_requests), ret |-> TRUE]
         ELSE [state |-> Updated(st, current_tokens, current_requests), ret |-> FALSE]

\* variant: "<=" in place of "<"
detect_restart_not_strict(st, current_tokens, current_requests) ==
    IF st.last_check_time = None
    THEN [state |-> Updated(st, current_tokens, current_requests), ret |-> FALSE]
    ELSE IF current_tokens <= st.last_total_tokens
            \/ current_requests <= st.last_total_requests
         THEN [state |-> [Updated(st, current_tokens, current_requests)
                             EXCEPT !.restart_count = @ + 1],
               ret |-> TRUE]
         ELSE [state |-> Updated(st, current_tokens, current_requests), ret |-> FALSE]

\* variant: the first check does not record last_check_time
detect_restart_no_check_time(st, current_tokens, current_requests) ==
    IF st.last_check_time = None
    THEN [state |-> [st EXCEPT !.last_total_tokens = current_tokens,
                               !.last_total_requests = current_requests],
          ret |-> FALSE]
    ELSE IF current_tokens < st.last_total_tokens
            \/ current_requests < st.last_total_requests
         THEN [state |-> [Updated(st, current_tokens, current_requests)
                             EXCEPT !.restart_count = @ + 1],
               ret |-> TRUE]
         ELSE [state |-> Updated(st, current_tokens, current_requests), ret |-> FALSE]

detect_cliproxy_restart(st, current_tokens, current_requests) ==
    IF st.last_check_time = None
    THEN [state |-> [st EXCEPT !.last_total_tokens = current_tokens,
                               !.last_total_requests = current_requests,
                               !.last_check_time = Timestamp],
          ret |-> FALSE]
    ELSE LET tokens_decreased == current_tokens < st.last_total_tokens
             requests_decreased == current_requests < st.last_total_requests
         IN  IF tokens_decreased \/ requests_decreased
             THEN [state |-> [st EXCEPT !.restart_count = @ + 1,
                                        !.last_total_tokens = current_tokens,
                                        !.last_total_requests = current_requests,
                                        !.last_check_time = Timestamp],
                   ret |-> TRUE]
             ELSE [state |-> [st EXCEPT !.last_total_tokens = current_tokens,
                                        !.last_total_requests = current_requests,
                                        !.last_check_time = Timestamp],
                   ret |-> FALSE]

\* ---------------------------------------------------------------- import_cliproxy_snapshot
\* file: the content of SNAPSHOT_FILE; err: call_management_api returned an error
\* variant: a missing file is posted as an empty snapshot
import_snapshot_no_exists_check(file, err) ==
    IF file.status = "truncated"
    THEN [ret |-> FALSE, log |-> "Import error", posted |-> FALSE]
    ELSE IF err
    THEN [ret |-> FALSE, log |-> "Import failed", posted |-> TRUE]
    ELSE [ret |-> TRUE, log |-> "Import completed", posted |-> TRUE]

\* variant: the error of the import call is not looked at
import_snapshot_err_ignored(file, err) ==
    IF file.status = "missing"
    THEN [ret |-> FALSE, log |-> "No snapshot file found", posted |-> FALSE]
    ELSE IF file.status = "truncated"
    THEN [ret |-> FALSE, log |-> "Import error", posted |-> FALSE]
    ELSE [ret |-> TRUE, log |-> "Import completed", posted |-> TRUE]

import_cliproxy_snapshot(file, err) ==
    IF file.status = "missing"
    THEN [ret |-> FALSE, log |-> "No snapshot file found", posted |-> FALSE]
    ELSE IF file.status = "truncated"
    THEN [ret |-> FALSE, log |-> "Import error", posted |-> FALSE]
    ELSE IF err
    THEN [ret |-> FALSE, log |-> "Import failed", posted |-> TRUE]
    ELSE [ret |-> TRUE, log |-> "Import completed", posted |-> TRUE]

\* ---------------------------------------------------------------- initial state
\* no key has been generated and no user has registered
NoKeys ==
    /\ key_pool_file = [exists |-> FALSE, has_unused |-> FALSE, unused |-> <<>>,
                        assigned |-> NoAssigned]
    /\ user_keys_file = [exists |-> FALSE, data |-> EmptyUserKeys]
    /\ user_keys_cache = [loaded |-> TRUE, has_data |-> TRUE, data |-> EmptyUserKeys]
    /\ upstream_keys = {}
    /\ generated_keys = {}
    /\ key_ret = [op |-> "", api_key |-> NoKey, email |-> NoEmail, get_err |-> FALSE,
                 ok |-> FALSE, error |-> ""]

InitMonitor ==
    /\ cliproxy_state = [last_total_tokens |-> 0, last_total_requests |-> 0,
                         last_check_time |-> None, restart_count |-> 0]
    /\ last_usage_state = Totals(0, 0)
    /\ snapshot_file = NoFile
    /\ up = Totals(0, 0)
    /\ pc = [p \in Callers |-> "idle"]
    /\ cur = [p \in Callers |-> Totals(0, 0)]
    /\ exp_pc = "idle"
    /\ exp_data = Totals(0, 0)
    /\ observed = FALSE
    /\ last_call = NoCall
    /\ n_detected = 0
    /\ cyc = [p \in Callers |-> <<>>]
    /\ rec = [p \in Callers |-> NoImport]
    /\ exp_ret = <<>>
    /\ up_restarted = FALSE
    /\ cur_restarted = [p \in Callers |-> FALSE]
    /\ file_old = FALSE
    /\ exp_old = FALSE

\* _stats_cache = {"data": None, "last_update": 0, "ttl": 5}
NoStats ==
    /\ stats_cache = [data |-> NoData, last_update |-> 0]
    /\ clock = 0
    /\ stats_ret = [seq |-> 0, from_cache |-> FALSE, data |-> NoData, err |-> FALSE]
    /\ data_time = 0

\* no request is being served
NoRequests ==
    /\ req_pc = [r \in Emails |-> "idle"]
    /\ req_pool = [r \in Emails |-> NoPoolFile]
    /\ req_key = [r \in Emails |-> NoKey]

Init == InitMonitor /\ NoKeys /\ NoStats /\ NoRequests

monitor_vars == <<cliproxy_state, last_usage_state, pc, cur, observed, last_call,
                  n_detected, cyc, rec>>

export_vars == <<snapshot_file, exp_pc, exp_data, exp_ret>>

\* ---------------------------------------------------------------- the upstream service
\* a proxied request adds to one of the totals
UpstreamUsage ==
    /\ \E k \in {"total_tokens", "total_requests"} :
          /\ up[k] < MaxCount
          /\ up' = [up EXCEPT ![k] = @ + 1]
    /\ UNCHANGED <<monitor_vars, export_vars>>

\* the upstream process restarts and loses its in-memory statistics; the run is
\* explored until the monitor has counted MaxRestarts restarts
UpstreamRestart ==
    /\ cliproxy_state.restart_count < MaxRestarts
    /\ up' = Totals(0, 0)
    /\ UNCHANGED <<monitor_vars, export_vars>>

\* ---------------------------------------------------------------- call_management_api
\* GET /v0/management/usage answered with status 200: data.get("usage", {}) and
\* usage.get(k, 0) read 0 for every total the body does not carry
UsageTotals(missing) ==
    [k \in {"total_tokens", "total_requests"} |-> IF k \in missing THEN 0 ELSE up[k]]

\* POST /v0/management/usage/import accepted: the upstream merges the records of the
\* snapshot into its own, adding those it does not hold and skipping the others
MergedTotals(u, file) ==
    {m \in [total_tokens : Counts, total_requests : Counts] :
        /\ u.total_tokens <= m.total_tokens
        /\ m.total_tokens <= u.total_tokens + file.total_tokens
        /\ u.total_requests <= m.total_requests
        /\ m.total_requests <= u.total_requests + file.total_requests}

\* ---------------------------------------------------------------- broadcast_usage_update
\* variant: the error is not looked at and the totals are read as 0
FetchUsageErrorIgnored(p) ==
    /\ pc[p] = "idle"
    /\ cur' = [cur EXCEPT ![p] = Totals(0, 0)]
    /\ pc' = [pc EXCEPT ![p] = "observe"]
    /\ cyc' = [cyc EXCEPT ![p] = <<"fetch_err">>]
    /\ UNCHANGED <<cliproxy_state, last_usage_state, observed, last_call, n_detected,
                   rec, up, export_vars>>

\* data, err = call_management_api("GET", "/v0/management/usage") with err set: return
FetchUsageError(p) ==
    /\ pc[p] = "idle"
    /\ cyc' = [cyc EXCEPT ![p] = <<"fetch_err">>]
    /\ UNCHANGED <<cliproxy_state, last_usage_state, pc, cur, observed, last_call,
                   n_detected, rec, up, export_vars>>

\* the call succeeds: current_tokens, current_requests are read from the body
FetchUsage(p) ==
    /\ pc[p] = "idle"
    /\ \E missing \in SUBSET {"total_tokens", "total_requests"} :
          /\ missing # {} => cliproxy_state.restart_count < MaxRestarts
          /\ cur' = [cur EXCEPT ![p] = UsageTotals(missing)]
    /\ pc' = [pc EXCEPT ![p] = "observe"]
    /\ cyc' = [cyc EXCEPT ![p] = <<"fetch_ok">>]
    /\ UNCHANGED <<cliproxy_state, last_usage_state, observed, last_call, n_detected,
                   rec, up, export_vars>>

\* variant: the recovery is not guarded by the result of the detection
AfterDetectUnguarded(ret) == "recover"

\* if detect_cliproxy_restart(current_tokens, current_requests): recovery, else broadcast
AfterDetect(ret) == IF ret THEN "recover" ELSE "broadcast"

Observe(p) ==
    /\ pc[p] = "observe"
    /\ LET r == detect_cliproxy_restart(cliproxy_state, cur[p].total_tokens,
                                        cur[p].total_requests)
       IN  /\ cliproxy_state' = r.state
           /\ observed' = TRUE
           /\ last_call' = [called |-> TRUE, first |-> ~observed,
                            prev |-> Totals(cliproxy_state.last_total_tokens,
                                            cliproxy_state.last_total_requests),
                            prev_count |-> cliproxy_state.restart_count,
                            current_tokens |-> cur[p].total_tokens,
                            current_requests |-> cur[p].total_requests, ret |-> r.ret]
           /\ n_detected' = IF r.ret THEN n_detected + 1 ELSE n_detected
           /\ cyc' = [cyc EXCEPT ![p] =
                         Append(@, IF r.ret THEN "restart_detected" ELSE "no_restart")]
           /\ pc' = [pc EXCEPT ![p] = AfterDetect(r.ret)]
    /\ UNCHANGED <<last_usage_state, cur, rec, up, export_vars>>

\* variant: a recovery that failed is attempted once more
ImportSnapshotRetries(p) ==
    /\ pc[p] = "recover"
    /\ \E err \in BOOLEAN :
          LET r == import_cliproxy_snapshot(snapshot_file, err)
          IN  /\ ~r.posted => ~err
              /\ IF r.posted /\ ~err
                 THEN up' \in MergedTotals(up, snapshot_file)
                 ELSE up' = up
              /\ rec' = [rec EXCEPT ![p] =
                            [called |-> TRUE, ret |-> r.ret, log |-> r.log,
                             posted |-> r.posted, file |-> snapshot_file.status,
                             err |-> err]]
              /\ cyc' = [cyc EXCEPT ![p] = Append(@, "import")]
              /\ pc' = [pc EXCEPT ![p] = IF r.ret THEN "refetch"
                                         ELSE IF rec[p].called THEN "broadcast"
                                         ELSE "recover"]
    /\ UNCHANGED <<cliproxy_state, last_usage_state, cur, observed, last_call,
                   n_detected, export_vars>>

\* if import_cliproxy_snapshot(): re-read the totals, else keep the fetched ones
ImportSnapshot(p) ==
    /\ pc[p] = "recover"
    /\ \E err \in BOOLEAN :
          LET r == import_cliproxy_snapshot(snapshot_file, err)
          IN  /\ ~r.posted => ~err
              /\ IF r.posted /\ ~err
                 THEN up' \in MergedTotals(up, snapshot_file)
                 ELSE up' = up
              /\ rec' = [rec EXCEPT ![p] =
                            [called |-> TRUE, ret |-> r.ret, log |-> r.log,
                             posted |-> r.posted, file |-> snapshot_file.status,
                             err |-> err]]
              /\ cyc' = [cyc EXCEPT ![p] = Append(@, "import")]
              /\ pc' = [pc EXCEPT ![p] = IF r.ret THEN "refetch" ELSE "broadcast"]
    /\ UNCHANGED <<cliproxy_state, last_usage_state, cur, observed, last_call,
                   n_detected, export_vars>>

\* variant: a failed re-read ends the cycle without the broadcast step
RefetchUsageAbortOnError(p) ==
    /\ pc[p] = "refetch"
    /\ \/ /\ \E missing \in SUBSET {"total_tokens", "total_requests"} :
                /\ missing # {} => cliproxy_state.restart_count < MaxRestarts
                /\ cur' = [cur EXCEPT ![p] = UsageTotals(missing)]
          /\ cyc' = [cyc EXCEPT ![p] = Append(@, "refetch_ok")]
          /\ pc' = [pc EXCEPT ![p] = "broadcast"]
          /\ UNCHANGED <<last_call, rec>>
       \/ /\ cur' = [cur EXCEPT ![p] = Totals(0, 0)]
          /\ cyc' = [cyc EXCEPT ![p] = Append(@, "refetch_err")]
          /\ pc' = [pc EXCEPT ![p] = "idle"]
          /\ last_call' = NoCall
          /\ rec' = [rec EXCEPT ![p] = NoImport]
    /\ UNCHANGED <<cliproxy_state, last_usage_state, observed, n_detected, up,
                   export_vars>>

\* data, err = call_management_api("GET", "/v0/management/usage") after the import
RefetchUsage(p) ==
    /\ pc[p] = "refetch"
    /\ \/ /\ \E missing \in SUBSET {"total_tokens", "total_requests"} :
                /\ missing # {} => cliproxy_state.restart_count < MaxRestarts
                /\ cur' = [cur EXCEPT ![p] = UsageTotals(missing)]
          /\ cyc' = [cyc EXCEPT ![p] = Append(@, "refetch_ok")]
       \/ /\ UNCHANGED cur
          /\ cyc' = [cyc EXCEPT ![p] = Append(@, "refetch_err")]
    /\ pc' = [pc EXCEPT ![p] = "broadcast"]
    /\ UNCHANGED <<cliproxy_state, last_usage_state, observed, last_call, n_detected,
                   rec, up, export_vars>>

\* variant: usage_update is emitted at the end of every cycle
BroadcastAlways(p) ==
    /\ pc[p] = "broadcast"
    /\ last_usage_state' = Totals(cur[p].total_tokens, cur[p].total_requests)
    /\ cyc' = [cyc EXCEPT ![p] = Append(@, "usage_update")]
    /\ pc' = [pc EXCEPT ![p] = "idle"]
    /\ cur' = [cur EXCEPT ![p] = Totals(0, 0)]
    /\ last_call' = NoCall
    /\ rec' = [rec EXCEPT ![p] = NoImport]
    /\ UNCHANGED <<cliproxy_state, observed, n_detected, up, export_vars>>

\* only broadcast if there's a change
Broadcast(p) ==
    /\ pc[p] = "broadcast"
    /\ IF \/ cur[p].total_tokens # last_usage_state.total_tokens
          \/ cur[p].total_requests # last_usage_state.total_requests
       THEN /\ last_usage_state' = Totals(cur[p].total_tokens, cur[p].total_requests)
            /\ cyc' = [cyc EXCEPT ![p] = Append(@, "usage_update")]
       ELSE /\ UNCHANGED last_usage_state
            /\ cyc' = [cyc EXCEPT ![p] = Append(@, "no_update")]
    /\ pc' = [pc EXCEPT ![p] = "idle"]
    /\ cur' = [cur EXCEPT ![p] = Totals(0, 0)]
    /\ last_call' = NoCall
    /\ rec' = [rec EXCEPT ![p] = NoImport]
    /\ UNCHANGED <<cliproxy_state, observed, n_detected, up, export_vars>>

\* ---------------------------------------------------------------- export_cliproxy_snapshot
\* variant: the file is opened for writing before the answer of the export call is tested
ExportErrorTruncates ==
    /\ exp_pc = "idle"
    /\ exp_ret' = <<FALSE>>
    /\ snapshot_file' = IF snapshot_file.status = "missing" THEN snapshot_file ELSE Truncated
    /\ UNCHANGED <<exp_pc, exp_data, up, monitor_vars>>

\* call_management_api("GET", "/v0/management/usage/export") with err set: return False
ExportError ==
    /\ exp_pc = "idle"
    /\ exp_ret' = <<FALSE>>
    /\ UNCHANGED <<snapshot_file, exp_pc, exp_data, up, monitor_vars>>

\* the call succeeds; open(SNAPSHOT_FILE, "w") creates or truncates the file
ExportOpen ==
    /\ exp_pc = "idle"
    /\ exp_data' = Totals(up.total_tokens, up.total_requests)
    /\ snapshot_file' = Truncated
    /\ exp_pc' = "dump"
    /\ UNCHANGED <<exp_ret, up, monitor_vars>>

\* variant: the file receives the totals the upstream holds when the file is written
ExportDumpCurrent ==
    /\ exp_pc = "dump"
    /\ snapshot_file' = SnapshotOf(Totals(up.total_tokens, up.total_requests))
    /\ exp_pc' = "idle"
    /\ exp_ret' = <<TRUE>>
    /\ exp_data' = Totals(0, 0)
    /\ UNCHANGED <<up, monitor_vars>>

\* json.dump(data, f) and the close of the file; return True
ExportDump ==
    /\ exp_pc = "dump"
    /\ snapshot_file' = SnapshotOf(exp_data)
    /\ exp_pc' = "idle"
    /\ exp_ret' = <<TRUE>>
    /\ exp_data' = Totals(0, 0)
    /\ UNCHANGED <<up, monitor_vars>>

\* ---------------------------------------------------------------- user keys
\* the methods call_management_api sends; any other returns "Unsupported method"
SupportedMethods == {"GET", "POST"}

\* the file's content, or {"unused": [], "assigned": {}} when there is no file
load_key_pool(file) ==
    IF file.exists THEN file
    ELSE [exists |-> FALSE, has_unused |-> TRUE, unused |-> <<>>, assigned |-> NoAssigned]

save_key_pool(pool) == [pool EXCEPT !.exists = TRUE]

\* the cached data if loaded, else the file's content or the empty structure, cached
load_user_keys(file, cache) ==
    IF cache.loaded /\ cache.has_data
    THEN [data |-> cache.data, cache |-> cache]
    ELSE LET data == IF file.exists THEN file.data ELSE EmptyUserKeys
         IN  [data |-> data, cache |-> [loaded |-> TRUE, has_data |-> TRUE, data |-> data]]

\* json.dump to the file, then _user_keys_cache["data"] = data
save_user_keys(data, cache) ==
    [file |-> [exists |-> TRUE, data |-> data],
     cache |-> [cache EXCEPT !.has_data = TRUE, !.data = data]]

\* list.remove(x): the first occurrence of x is removed
RemoveFirst(s, x) ==
    LET i == CHOOSE i \in 1..Len(s) : s[i] = x /\ \A j \in 1..(i - 1) : s[j] # x
    IN  SubSeq(s, 1, i - 1) \o SubSeq(s, i + 1, Len(s))

\* variant: the key is taken from the end of the unused list
assign_key_takes_last(email, pool_file, db_file, cache) ==
    LET pool == load_key_pool(pool_file)
    IN  IF ~pool.has_unused \/ pool.unused = <<>>
        THEN [api_key |-> NoKey, error |-> PoolEmptyMsg, pool_file |-> pool_file,
              db_file |-> db_file, cache |-> cache]
        ELSE LET api_key == pool.unused[Len(pool.unused)]
                 pool2 == [pool EXCEPT !.unused = SubSeq(@, 1, Len(@) - 1),
                                       !.assigned[api_key] = email]
                 ld == load_user_keys(db_file, cache)
                 u1 == IF ld.data.users[email].present THEN ld.data
                       ELSE [ld.data EXCEPT !.users[email] =
                                [present |-> TRUE, api_keys |-> <<>>]]
                 u2 == [u1 EXCEPT !.users[email].api_keys = Append(@, api_key),
                                  !.keys[api_key] = email]
                 sv == save_user_keys(u2, ld.cache)
             IN  [api_key |-> api_key, error |-> "", pool_file |-> save_key_pool(pool2),
                  db_file |-> sv.file, cache |-> sv.cache]

\* variant: the user record is created and saved before the pool is looked at
assign_key_creates_user_first(email, pool_file, db_file, cache) ==
    LET ld == load_user_keys(db_file, cache)
        u1 == [ld.data EXCEPT !.users[email].present = TRUE]
        sv == save_user_keys(u1, ld.cache)
    IN  [api_key |-> NoKey, error |-> PoolEmptyMsg, pool_file |-> pool_file,
         db_file |-> sv.file, cache |-> sv.cache]

assign_key_to_user(email, pool_file, db_file, cache) ==
    LET pool == load_key_pool(pool_file)
    IN  IF ~pool.has_unused \/ pool.unused = <<>>
        THEN [api_key |-> NoKey, error |-> PoolEmptyMsg, pool_file |-> pool_file,
              db_file |-> db_file, cache |-> cache]
        ELSE LET api_key == Head(pool.unused)
                 pool2 == [pool EXCEPT !.unused = Tail(@), !.assigned[api_key] = email]
                 ld == load_user_keys(db_file, cache)
                 u1 == IF ld.data.users[email].present THEN ld.data
                       ELSE [ld.data EXCEPT !.users[email] =
                                [present |-> TRUE, api_keys |-> <<>>]]
                 u2 == [u1 EXCEPT !.users[email].api_keys = Append(@, api_key),
                                  !.keys[api_key] = email]
                 sv == save_user_keys(u2, ld.cache)
             IN  [api_key |-> api_key, error |-> "", pool_file |-> save_key_pool(pool2),
                  db_file |-> sv.file, cache |-> sv.cache]

\* variant: the revoked key is dropped from assigned and not put back in unused
revoke_key_not_returned(api_key, pool_file, db_file, cache, keys_up, err) ==
    LET ld == load_user_keys(db_file, cache)
        email == ld.data.keys[api_key]
        same == [pool_file |-> pool_file, db_file |-> db_file, cache |-> ld.cache,
                 keys_up |-> keys_up]
    IN  IF email = NoEmail
        THEN [ok |-> FALSE, error |-> "Key not found"] @@ same
        ELSE LET u1 == IF ld.data.users[email].present
                       THEN [ld.data EXCEPT !.users[email].api_keys =
                                SelectSeq(@, LAMBDA x : x # api_key)]
                       ELSE ld.data
                 u2 == [u1 EXCEPT !.keys[api_key] = NoEmail]
                 sv == save_user_keys(u2, ld.cache)
                 pool == load_key_pool(pool_file)
                 pool2 == [pool EXCEPT !.assigned[api_key] = NoEmail]
             IN  [ok |-> TRUE, error |-> "", pool_file |-> save_key_pool(pool2),
                  db_file |-> sv.file, cache |-> sv.cache, keys_up |-> keys_up]

\* variant: the revoked key goes back to unused and stays in assigned
revoke_key_keeps_assigned(api_key, pool_file, db_file, cache, keys_up, err) ==
    LET ld == load_user_keys(db_file, cache)
        email == ld.data.keys[api_key]
        same == [pool_file |-> pool_file, db_file |-> db_file, cache |-> ld.cache,
                 keys_up |-> keys_up]
    IN  IF email = NoEmail
        THEN [ok |-> FALSE, error |-> "Key not found"] @@ same
        ELSE LET u1 == IF ld.data.users[email].present
                       THEN [ld.data EXCEPT !.users[email].api_keys =
                                SelectSeq(@, LAMBDA x : x # api_key)]
                       ELSE ld.data
                 u2 == [u1 EXCEPT !.keys[api_key] = NoEmail]
                 sv == save_user_keys(u2, ld.cache)
                 pool == load_key_pool(pool_file)
                 pool2 == [pool EXCEPT !.unused = Append(@, api_key)]
             IN  [ok |-> TRUE, error |-> "", pool_file |-> save_key_pool(pool2),
                  db_file |-> sv.file, cache |-> sv.cache, keys_up |-> keys_up]

\* err: the GET of the upstream's api-keys fails
revoke_key(api_key, pool_file, db_file, cache, keys_up, err) ==
    LET ld == load_user_keys(db_file, cache)
        email == ld.data.keys[api_key]
        same == [pool_file |-> pool_file, db_file |-> db_file, cache |-> ld.cache,
                 keys_up |-> keys_up]
    IN  IF email = NoEmail
        THEN [ok |-> FALSE, error |-> "Key not found"] @@ same
        ELSE IF /\ ld.data.users[email].present
                /\ \A i \in 1..Len(ld.data.users[email].api_keys) :
                       ld.data.users[email].api_keys[i] # api_key
        THEN [ok |-> FALSE, error |-> "ValueError"] @@ same
        ELSE LET u1 == IF ld.data.users[email].present
                       THEN [ld.data EXCEPT !.users[email].api_keys =
                                RemoveFirst(@, api_key)]
                       ELSE ld.data
                 u2 == [u1 EXCEPT !.keys[api_key] = NoEmail]
                 sv == save_user_keys(u2, ld.cache)
                 pool == load_key_pool(pool_file)
                 pool2 == [pool EXCEPT !.unused = Append(@, api_key),
                                       !.assigned[api_key] = NoEmail]
             IN  [ok |-> TRUE, error |-> "", pool_file |-> save_key_pool(pool2),
                  db_file |-> sv.file, cache |-> sv.cache,
                  keys_up |-> IF ~err /\ api_key \in keys_up /\ "PUT" \in SupportedMethods
                              THEN keys_up \ {api_key} ELSE keys_up]

portal_vars == <<up, monitor_vars, export_vars, track_vars>>

\* POST /api/register-key with a non-empty identifier
RegisterKey(email) ==
    LET r == assign_key_to_user(email, key_pool_file, user_keys_file, user_keys_cache)
    IN  /\ key_pool_file' = r.pool_file
        /\ user_keys_file' = r.db_file
        /\ user_keys_cache' = r.cache
        /\ key_ret' = [op |-> "assign", api_key |-> r.api_key, email |-> email,
                       get_err |-> FALSE, ok |-> r.error = "", error |-> r.error]
        /\ UNCHANGED <<upstream_keys, generated_keys, portal_vars, stats_vars, req_vars>>

\* the revocation of a key through the portal
RevokeKey(api_key, err) ==
    LET r == revoke_key(api_key, key_pool_file, user_keys_file, user_keys_cache,
                        upstream_keys, err)
    IN  /\ key_pool_file' = r.pool_file
        /\ user_keys_file' = r.db_file
        /\ user_keys_cache' = r.cache
        /\ upstream_keys' = r.keys_up
        /\ key_ret' = [op |-> "revoke", api_key |-> api_key,
                       email |-> load_user_keys(user_keys_file, user_keys_cache).data.keys[api_key],
                       get_err |-> err, ok |-> r.ok, error |-> r.error]
        /\ UNCHANGED <<generated_keys, portal_vars, stats_vars, req_vars>>

\* the pool file is absent, lacks the unused list or was written by generate_keys.py,
\* which also adds the keys to the upstream; load_user_keys() has run at startup
InitKeys ==
    /\ InitMonitor
    /\ NoStats
    /\ NoRequests
    /\ key_pool_file \in
          {[exists |-> FALSE, has_unused |-> FALSE, unused |-> <<>>, assigned |-> NoAssigned],
           [exists |-> TRUE, has_unused |-> FALSE, unused |-> <<>>, assigned |-> NoAssigned]}
          \cup {[exists |-> TRUE, has_unused |-> TRUE, unused |-> u, assigned |-> NoAssigned] :
                   u \in DistinctSeqs(Keys)}
    /\ user_keys_file = [exists |-> FALSE, data |-> EmptyUserKeys]
    /\ user_keys_cache = [loaded |-> TRUE, has_data |-> TRUE, data |-> EmptyUserKeys]
    /\ upstream_keys = {key_pool_file.unused[i] : i \in 1..Len(key_pool_file.unused)}
    /\ generated_keys = {key_pool_file.unused[i] : i \in 1..Len(key_pool_file.unused)}
    /\ key_ret = [op |-> "", api_key |-> NoKey, email |-> NoEmail, get_err |-> FALSE,
                 ok |-> FALSE, error |-> ""]

KeysNext ==
    \/ \E email \in Emails : RegisterKey(email)
    \/ \E api_key \in Keys, err \in BOOLEAN : RevokeKey(api_key, err)

SpecKeys == InitKeys /\ [][KeysNext]_vars

\* ---------------------------------------------------------------- concurrent registrations
\* /api/register-key requests are served on threads of their own and
\* assign_key_to_user takes no lock: each user sends one request, and the reads and
\* writes of the two files are the steps that interleave
\* pool = load_key_pool(); the empty pool returns (None, error)
AssignLoadPool(r) ==
    /\ req_pc[r] = "idle"
    /\ LET pool == load_key_pool(key_pool_file)
       IN  /\ req_pool' = [req_pool EXCEPT ![r] = pool]
           /\ req_pc' = [req_pc EXCEPT ![r] =
                            IF ~pool.has_unused \/ pool.unused = <<>> THEN "done"
                            ELSE "save"]
    /\ UNCHANGED <<req_key, key_vars, portal_vars, stats_vars>>

\* api_key = pool["unused"].pop(0); pool["assigned"][api_key] = email; save_key_pool(pool)
AssignSavePool(r) ==
    /\ req_pc[r] = "save"
    /\ LET api_key == Head(req_pool[r].unused)
           pool2 == [req_pool[r] EXCEPT !.unused = Tail(@), !.assigned[api_key] = r]
       IN  /\ req_key' = [req_key EXCEPT ![r] = api_key]
           /\ req_pool' = [req_pool EXCEPT ![r] = pool2]
           /\ key_pool_file' = save_key_pool(pool2)
    /\ req_pc' = [req_pc EXCEPT ![r] = "users"]
    /\ UNCHANGED <<user_keys_file, user_keys_cache, upstream_keys, key_ret,
                   generated_keys, portal_vars, stats_vars>>

\* user_keys = load_user_keys(); the user and the key are recorded; save_user_keys
AssignSaveUsers(r) ==
    /\ req_pc[r] = "users"
    /\ LET api_key == req_key[r]
           ld == load_user_keys(user_keys_file, user_keys_cache)
           u1 == IF ld.data.users[r].present THEN ld.data
                 ELSE [ld.data EXCEPT !.users[r] = [present |-> TRUE, api_keys |-> <<>>]]
           u2 == [u1 EXCEPT !.users[r].api_keys = Append(@, api_key),
                            !.keys[api_key] = r]
           sv == save_user_keys(u2, ld.cache)
       IN  /\ user_keys_file' = sv.file
           /\ user_keys_cache' = sv.cache
           /\ key_ret' = [op |-> "assign", api_key |-> api_key, email |-> r,
                          get_err |-> FALSE, ok |-> TRUE, error |-> ""]
    /\ req_pc' = [req_pc EXCEPT ![r] = "done"]
    /\ UNCHANGED <<req_pool, req_key, key_pool_file, upstream_keys, generated_keys,
                   portal_vars, stats_vars>>

RaceNext ==
    \/ \E r \in Emails : AssignLoadPool(r)
    \/ \E r \in Emails : AssignSavePool(r)
    \/ \E r \in Emails : AssignSaveUsers(r)

SpecRace == InitKeys /\ [][RaceNext]_vars

\* ---------------------------------------------------------------- get_usage_stats_cached
\* the truth value Python gives the cached data: None and {} are false
Truthy(data) == data \notin {NoData, EmptyData}

\* variant: data as old as ttl are still served from the cache
get_usage_stats_cached_le(cache, now, resp) ==
    IF Truthy(cache.data) /\ (now - cache.last_update) <= ttl
    THEN [data |-> cache.data, err |-> FALSE, cache |-> cache, fetched |-> FALSE]
    ELSE IF resp = "err"
    THEN [data |-> NoData, err |-> TRUE, cache |-> cache, fetched |-> TRUE]
    ELSE [data |-> resp, err |-> FALSE, cache |-> [data |-> resp, last_update |-> now],
          fetched |-> TRUE]

\* resp: what call_management_api("GET", "/v0/management/usage") returns, if called
get_usage_stats_cached(cache, now, resp) ==
    IF Truthy(cache.data) /\ (now - cache.last_update) < ttl
    THEN [data |-> cache.data, err |-> FALSE, cache |-> cache, fetched |-> FALSE]
    ELSE IF resp = "err"
    THEN [data |-> NoData, err |-> TRUE, cache |-> cache, fetched |-> TRUE]
    ELSE [data |-> resp, err |-> FALSE, cache |-> [data |-> resp, last_update |-> now],
          fetched |-> TRUE]

\* a route calls get_usage_stats_cached(); now is read first, and the call of the
\* management API, if any, takes d seconds
GetUsageStats ==
    \E resp \in {"err", EmptyData, UsageData}, d \in 0..MaxLatency :
        LET r == get_usage_stats_cached(stats_cache, clock, resp)
        IN  /\ ~r.fetched => (resp = UsageData /\ d = 0)
            /\ clock + d <= MaxTime
            /\ stats_cache' = r.cache
            /\ stats_ret' = [seq |-> 1 - stats_ret.seq, from_cache |-> ~r.fetched,
                             data |-> r.data, err |-> r.err]
            /\ clock' = IF r.fetched THEN clock + d ELSE clock
            /\ data_time' = IF r.fetched /\ ~r.err THEN clock + d ELSE data_time
            /\ UNCHANGED <<portal_vars, key_vars, req_vars>>

\* a second passes
Tick ==
    /\ clock < MaxTime
    /\ clock' = clock + 1
    /\ UNCHANGED <<stats_cache, stats_ret, data_time, portal_vars, key_vars, req_vars>>

StatsNext ==
    \/ GetUsageStats
    \/ Tick

SpecStats == Init /\ [][StatsNext]_vars

\* ---------------------------------------------------------------- specification
\* one step of one of the portal's threads or of the upstream service; the history
\* of the restarts is not recorded
Next ==
    \/ UpstreamUsage /\ UNCHANGED <<track_vars, key_vars, stats_vars, req_vars>>
    \/ UpstreamRestart /\ UNCHANGED <<track_vars, key_vars, stats_vars, req_vars>>
    \/ \E p \in DOMAIN pc : FetchUsageError(p) /\ UNCHANGED <<track_vars, key_vars, stats_vars, req_vars>>
    \/ \E p \in DOMAIN pc : FetchUsage(p) /\ UNCHANGED <<track_vars, key_vars, stats_vars, req_vars>>
    \/ \E p \in DOMAIN pc : Observe(p) /\ UNCHANGED <<track_vars, key_vars, stats_vars, req_vars>>
    \/ \E p \in DOMAIN pc : ImportSnapshot(p) /\ UNCHANGED <<track_vars, key_vars, stats_vars, req_vars>>
    \/ \E p \in DOMAIN pc : RefetchUsage(p) /\ UNCHANGED <<track_vars, key_vars, stats_vars, req_vars>>
    \/ \E p \in DOMAIN pc : Broadcast(p) /\ UNCHANGED <<track_vars, key_vars, stats_vars, req_vars>>
    \/ ExportError /\ UNCHANGED <<track_vars, key_vars, stats_vars, req_vars>>
    \/ ExportOpen /\ UNCHANGED <<track_vars, key_vars, stats_vars, req_vars>>
    \/ ExportDump /\ UNCHANGED <<track_vars, key_vars, stats_vars, req_vars>>

Spec == Init /\ [][Next]_vars

\* ---------------------------------------------------------------- restarts tracked
\* the same steps, with the history of the upstream restarts: which fetch was the
\* first to follow a restart, and whether the snapshot predates the last restart
TrackNext ==
    \/ UpstreamUsage /\ UNCHANGED <<track_vars, key_vars, stats_vars, req_vars>>
    \/ /\ UpstreamRestart
       /\ up_restarted' = TRUE
       /\ file_old' = (snapshot_file.status = "complete")
       /\ exp_old' = (exp_pc = "dump")
       /\ UNCHANGED cur_restarted
       /\ UNCHANGED <<key_vars, stats_vars, req_vars>>
    \/ \E p \in DOMAIN pc : FetchUsageError(p) /\ UNCHANGED <<track_vars, key_vars, stats_vars, req_vars>>
    \/ \E p \in DOMAIN pc :
          /\ FetchUsage(p)
          /\ cur_restarted' = [cur_restarted EXCEPT ![p] = up_restarted]
          /\ up_restarted' = FALSE
          /\ UNCHANGED <<file_old, exp_old>>
          /\ UNCHANGED <<key_vars, stats_vars, req_vars>>
    \/ \E p \in DOMAIN pc : Observe(p) /\ UNCHANGED <<track_vars, key_vars, stats_vars, req_vars>>
    \/ \E p \in DOMAIN pc : ImportSnapshot(p) /\ UNCHANGED <<track_vars, key_vars, stats_vars, req_vars>>
    \/ \E p \in DOMAIN pc : RefetchUsage(p) /\ UNCHANGED <<track_vars, key_vars, stats_vars, req_vars>>
    \/ \E p \in DOMAIN pc : Broadcast(p) /\ UNCHANGED <<track_vars, key_vars, stats_vars, req_vars>>
    \/ ExportError /\ UNCHANGED <<track_vars, key_vars, stats_vars, req_vars>>
    \/ /\ ExportOpen
       /\ exp_old' = FALSE
       /\ UNCHANGED <<up_restarted, cur_restarted, file_old>>
       /\ UNCHANGED <<key_vars, stats_vars, req_vars>>
    \/ /\ ExportDump
       /\ file_old' = exp_old
       /\ exp_old' = FALSE
       /\ UNCHANGED <<up_restarted, cur_restarted>>
       /\ UNCHANGED <<key_vars, stats_vars, req_vars>>

SpecTrack == Init /\ [][TrackNext]_vars

\* ---------------------------------------------------------------- detection alone
\* the monitor cycle of the single 3-second job and the upstream, with the history
\* of the restarts; no snapshot is ever exported, so every recovery finds no file
DetectNext ==
    \/ UpstreamUsage /\ UNCHANGED <<track_vars, key_vars, stats_vars, req_vars>>
    \/ /\ UpstreamRestart
       /\ up_restarted' = TRUE
       /\ UNCHANGED <<cur_restarted, file_old, exp_old>>
       /\ UNCHANGED <<key_vars, stats_vars, req_vars>>
    \/ \E p \in DOMAIN pc : FetchUsageError(p) /\ UNCHANGED <<track_vars, key_vars, stats_vars, req_vars>>
    \/ \E p \in DOMAIN pc :
          /\ FetchUsage(p)
          /\ cur_restarted' = [cur_restarted EXCEPT ![p] = up_restarted]
          /\ up_restarted' = FALSE
          /\ UNCHANGED <<file_old, exp_old>>
          /\ UNCHANGED <<key_vars, stats_vars, req_vars>>
    \/ \E p \in DOMAIN pc : Observe(p) /\ UNCHANGED <<track_vars, key_vars, stats_vars, req_vars>>
    \/ \E p \in DOMAIN pc : ImportSnapshot(p) /\ UNCHANGED <<track_vars, key_vars, stats_vars, req_vars>>
    \/ \E p \in DOMAIN pc : Broadcast(p) /\ UNCHANGED <<track_vars, key_vars, stats_vars, req_vars>>

SpecDetect == Init /\ [][DetectNext]_vars

\* ---------------------------------------------------------------- concurrent callers
\* broadcast_usage_update is called by the scheduler's usage_broadcast job, by the
\* usage_sync job and by the handler of every WebSocket connect, each on a thread of
\* its own and with no lock; two of them are enough to interleave
ConcCallers == {"usage_broadcast", "connect"}

InitConc ==
    /\ cliproxy_state = [last_total_tokens |-> 0, last_total_requests |-> 0,
                         last_check_time |-> None, restart_count |-> 0]
    /\ last_usage_state = Totals(0, 0)
    /\ snapshot_file = NoFile
    /\ up = Totals(0, 0)
    /\ pc = [p \in ConcCallers |-> "idle"]
    /\ cur = [p \in ConcCallers |-> Totals(0, 0)]
    /\ exp_pc = "idle"
    /\ exp_data = Totals(0, 0)
    /\ observed = FALSE
    /\ last_call = NoCall
    /\ n_detected = 0
    /\ cyc = [p \in ConcCallers |-> <<>>]
    /\ rec = [p \in ConcCallers |-> NoImport]
    /\ exp_ret = <<>>
    /\ up_restarted = FALSE
    /\ cur_restarted = [p \in ConcCallers |-> FALSE]
    /\ file_old = FALSE
    /\ exp_old = FALSE
    /\ NoKeys
    /\ NoStats
    /\ NoRequests

\* the upstream always answers with both totals, so that the counters the callers
\* read never decrease without a restart; no snapshot has been exported, so that
\* every recovery ends in NoSnapshotAvailable
ConcNext ==
    \/ UpstreamUsage /\ UNCHANGED <<track_vars, key_vars, stats_vars, req_vars>>
    \/ /\ UpstreamRestart
       /\ up_restarted' = TRUE
       /\ file_old' = (snapshot_file.status = "complete")
       /\ exp_old' = (exp_pc = "dump")
       /\ UNCHANGED cur_restarted
       /\ UNCHANGED <<key_vars, stats_vars, req_vars>>
    \/ \E p \in DOMAIN pc : FetchUsageError(p) /\ UNCHANGED <<track_vars, key_vars, stats_vars, req_vars>>
    \/ \E p \in DOMAIN pc :
          /\ FetchUsage(p)
          /\ cur'[p] = up
          /\ cur_restarted' = [cur_restarted EXCEPT ![p] = up_restarted]
          /\ up_restarted' = FALSE
          /\ UNCHANGED <<file_old, exp_old>>
          /\ UNCHANGED <<key_vars, stats_vars, req_vars>>
    \/ \E p \in DOMAIN pc : Observe(p) /\ UNCHANGED <<track_vars, key_vars, stats_vars, req_vars>>
    \/ \E p \in DOMAIN pc : ImportSnapshot(p) /\ UNCHANGED <<track_vars, key_vars, stats_vars, req_vars>>
    \/ \E p \in DOMAIN pc : Broadcast(p) /\ UNCHANGED <<track_vars, key_vars, stats_vars, req_vars>>

SpecConc == InitConc /\ [][ConcNext]_vars

TypeOK ==
    /\ cliproxy_state.last_total_tokens \in Counts
    /\ cliproxy_state.last_total_requests \in Counts
    /\ cliproxy_state.last_check_time \in {None, Timestamp}
    /\ cliproxy_state.restart_count \in Nat
    /\ up \in [total_tokens : Counts, total_requests : Counts]
    /\ snapshot_file.status \in {"missing", "truncated", "complete"}

\* ---------------------------------------------------------------- properties
Baseline == Totals(cliproxy_state.last_total_tokens, cliproxy_state.last_total_requests)

Passed == Totals(last_call.current_tokens, last_call.current_requests)

TrackingAt(t, r) ==
    [last_total_tokens |-> t, last_total_requests |-> r, last_check_time |-> Timestamp,
     restart_count |-> 0]

\* C1: after each call of detect_cliproxy_restart the stored baseline
\* (last_total_tokens, last_total_requests) is the pair passed to that call, be it
\* the first observation, one that signals a restart or one that signals none.
C1_BaselineIsLastInput ==
    last_call.called => Baseline = Passed

C1_Witness ==
    /\ last_call.called /\ last_call.ret
    /\ Passed = Totals(0, 1) /\ last_call.prev = Totals(1, 0)
    /\ Baseline = Passed

\* C2: once a baseline exists, the call reports a restart exactly when one of the two
\* totals is strictly below its stored value; baseline (100, 50) with (80, 60) reports
\* a restart and with (150, 70) reports none.
C2_RestartIffEitherDecreased ==
    /\ detect_cliproxy_restart(TrackingAt(100, 50), 80, 60).ret
    /\ ~detect_cliproxy_restart(TrackingAt(100, 50), 150, 70).ret
    /\ (last_call.called /\ ~last_call.first) =>
          (last_call.ret <=>
              \/ last_call.current_tokens < last_call.prev.total_tokens
              \/ last_call.current_requests < last_call.prev.total_requests)

C2_Witness ==
    /\ last_call.called /\ ~last_call.first /\ last_call.ret
    /\ last_call.current_tokens > last_call.prev.total_tokens
    /\ last_call.current_requests < last_call.prev.total_requests

\* C3: the first call of detect_cliproxy_restart reports no restart whatever the
\* totals passed; it stores them as the baseline and restart_count stays 0.
C3_FirstCallNeverReports ==
    (last_call.called /\ last_call.first) =>
        /\ ~last_call.ret
        /\ Baseline = Passed
        /\ cliproxy_state.restart_count = 0

C3_Witness ==
    /\ last_call.called /\ last_call.first /\ ~last_call.ret
    /\ Passed = Totals(1, 1) /\ Baseline = Passed
    /\ cliproxy_state.restart_count = 0

\* C4: restart_count is the number of calls of detect_cliproxy_restart that returned
\* True: each such call adds exactly 1 and nothing else changes it.
C4_RestartCountCountsDetections ==
    cliproxy_state.restart_count = n_detected

C4_Witness ==
    /\ cliproxy_state.restart_count = 2 /\ n_detected = 2
    /\ snapshot_file.status = "complete"
    /\ exp_ret = <<TRUE>>
    /\ \E p \in DOMAIN pc : pc[p] = "broadcast" /\ rec[p].called

\* C5: a call that passes the pair the baseline already holds reports no restart and
\* leaves the baseline and restart_count as they were.
C5_UnchangedInputIsIdempotent ==
    (last_call.called /\ Passed = last_call.prev) =>
        /\ ~last_call.ret
        /\ Baseline = last_call.prev
        /\ cliproxy_state.restart_count = last_call.prev_count

C5_Witness ==
    /\ last_call.called /\ ~last_call.first /\ ~last_call.ret
    /\ Passed = Totals(0, 1) /\ last_call.prev = Totals(0, 1)
    /\ last_call.prev_count = 1 /\ cliproxy_state.restart_count = 1

\* C6: last_check_time is None exactly as long as detect_cliproxy_restart has never
\* been called.
C6_CheckTimeNoneIffNeverObserved ==
    (cliproxy_state.last_check_time = None) <=> ~observed

C6_Witness ==
    /\ observed /\ cliproxy_state.last_check_time # None
    /\ cliproxy_state.restart_count = 1
    /\ \A p \in DOMAIN pc : pc[p] = "idle"

\* ---------------------------------------------------------------- the monitor cycle
\* a step in which the usage fetch of caller p fails
FetchErrStep(p) ==
    /\ pc[p] = "idle"
    /\ cyc'[p] = <<"fetch_err">>
    /\ cyc'[p] # cyc[p]

\* a step in which caller p runs import_cliproxy_snapshot
ImportStep(p) == ~rec[p].called /\ rec'[p].called

HasEvent(t, e) == \E i \in DOMAIN t : t[i] = e

\* C7: a monitor cycle whose usage fetch fails ends there: the baseline,
\* last_check_time, restart_count and the last broadcast totals are unchanged, and the
\* cycle holds no detection, no import and no usage_update.
C7_FailedFetchSkipsCycle ==
    /\ [](\A p \in DOMAIN pc :
            (cyc[p] # <<>> /\ cyc[p][1] = "fetch_err") =>
                /\ cyc[p] = <<"fetch_err">>
                /\ pc[p] = "idle"
                /\ ~rec[p].called)
    /\ [][\A p \in DOMAIN pc :
            FetchErrStep(p) =>
                /\ UNCHANGED <<cliproxy_state, last_usage_state, observed, last_call,
                               n_detected, rec, up, snapshot_file>>
                /\ pc'[p] = "idle"]_vars

C7_Witness ==
    /\ \E p \in DOMAIN pc : cyc[p] = <<"fetch_err">> /\ pc[p] = "idle"
    /\ Baseline = Totals(1, 1) /\ last_usage_state = Totals(1, 1)
    /\ up = Totals(0, 0)
    /\ cliproxy_state.restart_count = 0

\* C8: within a monitor cycle import_cliproxy_snapshot runs exactly when
\* detect_cliproxy_restart returned True in that cycle, right after that call and
\* before the cycle's usage_update.
C8_RecoveryIffRestartDetected ==
    \A p \in DOMAIN pc :
        /\ HasEvent(cyc[p], "import") <=>
              /\ Len(cyc[p]) >= 2
              /\ cyc[p][2] = "restart_detected"
              /\ pc[p] # "recover"
        /\ rec[p].called => HasEvent(cyc[p], "import")
        /\ \A i \in DOMAIN cyc[p] :
              /\ cyc[p][i] = "import" => i = 3
              /\ cyc[p][i] \in {"usage_update", "no_update"} => i = Len(cyc[p]) /\ i >= 3
        /\ pc[p] = "recover" => last_call.called /\ last_call.ret

C8_Witness ==
    \E p \in DOMAIN pc :
        /\ cyc[p] = <<"fetch_ok", "restart_detected", "import", "refetch_ok",
                      "usage_update">>
        /\ pc[p] = "idle"

\* C9: import_cliproxy_snapshot with no snapshot file returns False after logging
\* "No snapshot file found": the import interface of the upstream is not called and
\* the baseline, restart_count and the snapshot file are untouched.
C9_NoSnapshotNoEffect ==
    /\ [](\A p \in DOMAIN pc :
            (rec[p].called /\ rec[p].file = "missing") =>
                /\ ~rec[p].ret
                /\ rec[p].log = "No snapshot file found"
                /\ ~rec[p].posted)
    /\ [][\A p \in DOMAIN pc :
            (ImportStep(p) /\ snapshot_file.status = "missing") =>
                UNCHANGED <<cliproxy_state, snapshot_file, up, last_usage_state>>]_vars

C9_Witness ==
    \E p \in DOMAIN pc :
        /\ rec[p].called /\ rec[p].file = "missing" /\ ~rec[p].ret
        /\ snapshot_file.status = "missing"
        /\ cliproxy_state.restart_count = 1
        /\ Baseline = Totals(0, 1)

\* C10 as stated: the value returned when no snapshot exists differs from the value
\* returned when the import call fails.
C10_OutcomesDistinguishable ==
    \A p \in DOMAIN pc :
        (rec[p].called /\ rec[p].file = "missing") =>
            rec[p].ret # import_cliproxy_snapshot(SnapshotOf(Totals(0, 0)), TRUE).ret

\* C10: import_cliproxy_snapshot returns True exactly when a complete snapshot file
\* exists and the import call succeeds; it returns False when no snapshot exists, when
\* the file cannot be parsed and when the import call fails, and these cases differ
\* only in the line logged.
C10_RecoveryReturnsSuccessOnly ==
    \A p \in DOMAIN pc :
        rec[p].called =>
            /\ rec[p].ret <=> (rec[p].file = "complete" /\ ~rec[p].err)
            /\ rec[p].log = "Import completed" <=> rec[p].ret
            /\ rec[p].log = "No snapshot file found" <=> rec[p].file = "missing"
            /\ rec[p].log = "Import failed" <=> (rec[p].file = "complete" /\ rec[p].err)
            /\ rec[p].log = "Import error" <=> rec[p].file = "truncated"
            /\ rec[p].posted <=> rec[p].file = "complete"

C10_Witness ==
    \E p \in DOMAIN pc :
        /\ rec[p].called /\ rec[p].file = "complete" /\ rec[p].err
        /\ ~rec[p].ret /\ rec[p].log = "Import failed"
        /\ pc[p] = "broadcast"

\* ---------------------------------------------------------------- recovery and export
\* C11: whenever a restart of the upstream is detected and the recovery returns
\* success, the snapshot that is imported was exported before that restart, under
\* every interleaving of the snapshot export with the restart and its detection
C11_ImportedSnapshotPredatesRestart ==
    [][\A p \in DOMAIN pc :
          (ImportStep(p) /\ rec'[p].ret /\ cur_restarted[p]
              /\ HasEvent(cyc[p], "restart_detected"))
          => file_old]_vars

\* the steps of export_cliproxy_snapshot: the open of the file and the end of the dump
ExportOpenStep == exp_pc = "idle" /\ exp_pc' = "dump"

ExportDumpStep == exp_pc = "dump" /\ exp_pc' = "idle"

\* C12 as stated: the stored snapshot always equals the most recent successful
\* export, so once an export has returned success the store holds a complete snapshot
C12_StoreAlwaysHoldsLastExport ==
    exp_ret = <<TRUE>> => snapshot_file.status = "complete"

\* C12: the store is one slot overwritten unconditionally: an export that succeeds
\* fetches the upstream data, empties the file and then leaves in it exactly the data
\* it fetched, whatever the file held before; nothing else changes the file, which
\* is empty while an export is writing it
C12_StoreIsOverwrittenByExport ==
    [][/\ ExportOpenStep =>
             /\ exp_data' = Totals(up.total_tokens, up.total_requests)
             /\ snapshot_file' = Truncated
       /\ ExportDumpStep =>
             /\ snapshot_file' = SnapshotOf(exp_data)
             /\ exp_ret' = <<TRUE>>
       /\ snapshot_file' # snapshot_file => ExportOpenStep \/ ExportDumpStep
       /\ (exp_ret' = <<TRUE>> /\ exp_ret # <<TRUE>>) => ExportDumpStep]_vars

C12_Witness ==
    /\ exp_pc = "idle"
    /\ exp_ret = <<TRUE>>
    /\ snapshot_file = SnapshotOf(Totals(0, 0))
    /\ cliproxy_state.last_total_tokens = 1
    /\ up.total_requests = 1

\* ---------------------------------------------------------------- concurrent cycles
\* C13: with upstream counters that never decrease between restarts, a cycle
\* reports a restart only if the upstream restarted between the previous successful
\* fetch and the fetch of that cycle, under every interleaving of the callers
C13_RestartSignalledOnlyAfterRestart ==
    \A p \in DOMAIN pc :
        HasEvent(cyc[p], "restart_detected") => cur_restarted[p]

\* C14: the evaluations are serialized: at most one caller is between its fetch and
\* the end of its cycle
C14_CyclesAreSerialized ==
    \A p, q \in DOMAIN pc : (pc[p] # "idle" /\ pc[q] # "idle") => p = q

\* C19: the cycle run by the handler of a WebSocket connect emits usage_update
\* whenever its fetch succeeded, changed totals or not
C19_ConnectAlwaysEmits ==
    ("connect" \in DOMAIN pc /\ pc["connect"] = "idle" /\ HasEvent(cyc["connect"], "fetch_ok"))
        => HasEvent(cyc["connect"], "usage_update")

\* ---------------------------------------------------------------- answers without totals
\* C15: an answer with status 200 that lacks 'usage', 'total_tokens' or
\* 'total_requests' ends the cycle: a cycle that goes on to detect_cliproxy_restart
\* passes the totals the upstream holds, never a 0 read in place of a missing total
C15_MissingTotalsSkipCycle ==
    [][\A p \in DOMAIN pc :
          (pc[p] = "idle" /\ pc'[p] = "observe") =>
              /\ cur'[p].total_tokens = up.total_tokens
              /\ cur'[p].total_requests = up.total_requests]_vars

\* ---------------------------------------------------------------- re-read after import
LastEvent(t) == IF t = <<>> THEN "" ELSE t[Len(t)]

\* the step of a caller whose re-read of the totals after the import fails
RefetchErrStep(p) ==
    /\ pc[p] = "refetch"
    /\ Len(cyc'[p]) = Len(cyc[p]) + 1
    /\ LastEvent(cyc'[p]) = "refetch_err"

\* C16: the totals are re-read only after an import that returned success; when the
\* re-read fails the outcome stays Restored, the baseline and restart_count keep
\* their values and the cycle goes on to its broadcast step with the totals
\* fetched before the import
C16_FailedRereadKeepsOutcome ==
    /\ [](\A p \in DOMAIN pc :
            pc[p] = "refetch" =>
                /\ rec[p].called /\ rec[p].ret
                /\ LastEvent(cyc[p]) = "import"
                /\ cur[p] = Totals(last_call.current_tokens, last_call.current_requests))
    /\ [][\A p \in DOMAIN pc :
            RefetchErrStep(p) =>
                /\ pc'[p] = "broadcast"
                /\ rec'[p] = rec[p]
                /\ cur'[p] = cur[p]
                /\ cliproxy_state' = cliproxy_state
                /\ last_usage_state' = last_usage_state
                /\ up' = up]_vars

C16_Witness ==
    \E p \in DOMAIN pc :
        /\ pc[p] = "broadcast"
        /\ cyc[p] = <<"fetch_ok", "restart_detected", "import", "refetch_err">>
        /\ rec[p].ret
        /\ up.total_tokens = 1
        /\ cur[p] = Totals(0, 0)

\* ---------------------------------------------------------------- no retry
\* C17: import_cliproxy_snapshot is called only in a cycle whose own observation
\* found a counter below the baseline, once in that cycle and with the baseline
\* already moved to the observed totals; a recovery that failed leads to the
\* broadcast step, so nothing is imported again before a new decrease is observed
C17_FailedRecoveryNotRetried ==
    /\ [](\A p \in DOMAIN pc :
            /\ pc[p] = "recover" =>
                   /\ ~rec[p].called
                   /\ LastEvent(cyc[p]) = "restart_detected"
                   /\ last_call.ret /\ ~last_call.first
                   /\ \/ last_call.current_tokens < last_call.prev.total_tokens
                      \/ last_call.current_requests < last_call.prev.total_requests
                   /\ cliproxy_state.last_total_tokens = cur[p].total_tokens
                   /\ cliproxy_state.last_total_requests = cur[p].total_requests
            /\ (rec[p].called /\ ~rec[p].ret) => pc[p] = "broadcast")
    /\ [][\A p \in DOMAIN pc : ImportStep(p) => pc[p] = "recover"]_vars

C17_Witness ==
    \E p \in DOMAIN pc :
        /\ cliproxy_state.restart_count = 1
        /\ snapshot_file = NoFile /\ exp_pc = "idle"
        /\ pc[p] = "broadcast"
        /\ cyc[p] = <<"fetch_ok", "no_restart">>
        /\ up = Totals(0, 0)

\* ---------------------------------------------------------------- usage_update
\* the last step of a cycle that fetched the totals
BroadcastStep(p) == pc[p] = "broadcast" /\ pc'[p] = "idle"

\* C18: a cycle emits usage_update if and only if its totals differ from
\* _last_usage_state; an emission stores the emitted pair in _last_usage_state,
\* which nothing else changes, so that no emitted pair repeats the one before it
C18_EmitsOnlyOnChange ==
    [][/\ \A p \in DOMAIN pc :
             BroadcastStep(p) =>
                 LET pair == Totals(cur[p].total_tokens, cur[p].total_requests)
                     emitted == LastEvent(cyc'[p]) = "usage_update"
                 IN  /\ emitted <=> pair # last_usage_state
                     /\ ~emitted => LastEvent(cyc'[p]) = "no_update"
                     /\ emitted => last_usage_state' = pair
                     /\ ~emitted => last_usage_state' = last_usage_state
       /\ last_usage_state' # last_usage_state =>
             \E p \in DOMAIN pc :
                 BroadcastStep(p) /\ LastEvent(cyc'[p]) = "usage_update"
       /\ \A p \in DOMAIN pc :
             (HasEvent(cyc'[p], "usage_update") /\ ~HasEvent(cyc[p], "usage_update"))
                 => BroadcastStep(p)]_vars

C18_Witness ==
    \E p \in DOMAIN pc :
        /\ pc[p] = "idle"
        /\ cyc[p] = <<"fetch_ok", "no_restart", "no_update">>
        /\ last_usage_state = Totals(1, 0)
        /\ cliproxy_state.last_total_tokens = 1

\* ---------------------------------------------------------------- empty key pool
\* the pool file is absent, has no unused list or has an empty one
PoolExhausted ==
    ~key_pool_file.exists \/ ~key_pool_file.has_unused \/ key_pool_file.unused = <<>>

\* C20: assign_key_to_user on a pool without unused keys returns (None, error
\* message) and leaves the key pool file, the user-keys database (no user record
\* appears) and the user-keys cache as they were
C20_EmptyPoolAssignChangesNothing ==
    [][(PoolExhausted /\ key_ret'.op = "assign") =>
          /\ key_ret'.api_key = NoKey
          /\ key_ret'.error = PoolEmptyMsg
          /\ ~key_ret'.ok
          /\ UNCHANGED <<key_pool_file, user_keys_file, user_keys_cache, upstream_keys>>]_vars

C20_Witness ==
    /\ key_ret = [op |-> "assign", api_key |-> NoKey, email |-> "bob", get_err |-> FALSE,
                  ok |-> FALSE, error |-> PoolEmptyMsg]
    /\ key_pool_file.exists /\ key_pool_file.unused = <<>>
    /\ \A k \in Keys : key_pool_file.assigned[k] = "ann"
    /\ ~user_keys_cache.data.users["bob"].present

\* ---------------------------------------------------------------- assignment
\* C21: an assign_key_to_user(email, ...) that succeeds returns the first key of the
\* unused list, removes that key alone from unused, sets assigned[key] = email,
\* creates the user record if the email is new, appends the key to the user's
\* api_keys and sets keys[key] to the email; no other key, user or pool entry changes
C21_AssignTakesFirstUnused ==
    [][(~PoolExhausted /\ key_ret'.op = "assign") =>
          LET k == Head(key_pool_file.unused)
              e == key_ret'.email
              old == user_keys_cache.data
              new == user_keys_cache'.data
          IN  /\ key_ret'.api_key = k /\ key_ret'.ok /\ key_ret'.error = ""
              /\ key_pool_file'.unused = Tail(key_pool_file.unused)
              /\ key_pool_file'.assigned = [key_pool_file.assigned EXCEPT ![k] = e]
              /\ key_pool_file'.exists /\ key_pool_file'.has_unused
              /\ new.users[e].present
              /\ new.users[e].api_keys =
                     Append(IF old.users[e].present THEN old.users[e].api_keys ELSE <<>>, k)
              /\ \A o \in Emails \ {e} : new.users[o] = old.users[o]
              /\ new.keys = [old.keys EXCEPT ![k] = e]
              /\ user_keys_file' = [exists |-> TRUE, data |-> new]
              /\ upstream_keys' = upstream_keys]_vars

C21_Witness ==
    /\ key_ret.op = "assign" /\ key_ret.ok /\ key_ret.email = "bob"
    /\ key_pool_file.unused = <<>>
    /\ key_pool_file.assigned[key_ret.api_key] = "bob"
    /\ \E k \in Keys : key_pool_file.assigned[k] = "ann"
    /\ user_keys_file.data.users["bob"].api_keys = <<key_ret.api_key>>

\* ---------------------------------------------------------------- revocation
SeqToSet(s) == {s[i] : i \in 1..Len(s)}

\* C22: revoke_key(k) for a key of the keys index returns (True, None), removes k
\* from its owner's api_keys and from the keys index, removes it from the pool's
\* assigned map and appends it to unused; k is then owned by no user and can be
\* assigned again, and every other key and user is unchanged
C22_RevokeReturnsKeyToPool ==
    [][(/\ key_ret'.op = "revoke"
        /\ user_keys_cache.data.keys[key_ret'.api_key] # NoEmail) =>
          LET k == key_ret'.api_key
              e == user_keys_cache.data.keys[k]
              old == user_keys_cache.data
              new == user_keys_cache'.data
          IN  /\ key_ret'.ok /\ key_ret'.error = "" /\ key_ret'.email = e
              /\ new.keys = [old.keys EXCEPT ![k] = NoEmail]
              /\ new.users[e].api_keys = SelectSeq(old.users[e].api_keys, LAMBDA x : x # k)
              /\ new.users[e].present
              /\ \A o \in Emails \ {e} : new.users[o] = old.users[o]
              /\ \A o \in Emails : k \notin SeqToSet(new.users[o].api_keys)
              /\ user_keys_file' = [exists |-> TRUE, data |-> new]
              /\ key_pool_file'.unused = Append(key_pool_file.unused, k)
              /\ key_pool_file'.assigned = [key_pool_file.assigned EXCEPT ![k] = NoEmail]
              /\ key_pool_file'.exists /\ key_pool_file'.has_unused]_vars

C22_Witness ==
    /\ key_ret.op = "revoke" /\ key_ret.ok /\ key_ret.email = "ann"
    /\ key_pool_file.unused = <<key_ret.api_key>>
    /\ Len(user_keys_cache.data.users["ann"].api_keys) = 1
    /\ key_ret.api_key \notin SeqToSet(user_keys_cache.data.users["ann"].api_keys)

\* C23: after a revoke_key(k) that returns success while the management API
\* answers the GET and lists k among its api_keys, k is no longer in the upstream's
\* list of keys
C23_RevokeRemovesKeyUpstream ==
    [][(/\ key_ret'.op = "revoke" /\ key_ret'.ok
        /\ user_keys_cache.data.keys[key_ret'.api_key] # NoEmail
        /\ ~key_ret'.get_err
        /\ key_ret'.api_key \in upstream_keys)
          => key_ret'.api_key \notin upstream_keys']_vars

\* ---------------------------------------------------------------- statistics cache
\* a call of get_usage_stats_cached
StatsCallStep == stats_ret'.seq # stats_ret.seq

\* C24 as stated: the cached data are returned without a call of the upstream if and
\* only if cached data exist and were stored less than ttl seconds ago
C24_CacheHitIffStoredWithinTtl ==
    [][StatsCallStep =>
          (stats_ret'.from_cache <=>
              (stats_cache.data # NoData /\ clock - stats_cache.last_update < ttl))]_vars

\* C24: the cached data are returned without a call of the upstream if and only if
\* the cache holds non-empty data stamped less than ttl seconds ago; otherwise the
\* upstream is called, a successful fetch stores its data stamped with the time read
\* at the start of the call, and a failed one returns (None, error) and leaves the
\* cache as it was; data returned from the cache left the upstream less than ttl ago
C24_CacheHitIffNonEmptyWithinTtl ==
    /\ [](Truthy(stats_cache.data) => stats_cache.last_update <= data_time)
    /\ [][StatsCallStep =>
            LET hit == Truthy(stats_cache.data) /\ clock - stats_cache.last_update < ttl
            IN  /\ stats_ret'.from_cache <=> hit
                /\ stats_ret'.from_cache =>
                       /\ stats_ret'.data = stats_cache.data /\ ~stats_ret'.err
                       /\ UNCHANGED <<stats_cache, clock>>
                       /\ clock - data_time < ttl
                /\ (~stats_ret'.from_cache /\ ~stats_ret'.err) =>
                       stats_cache' = [data |-> stats_ret'.data, last_update |-> clock]
                /\ (~stats_ret'.from_cache /\ stats_ret'.err) =>
                       stats_ret'.data = NoData /\ stats_cache' = stats_cache]_vars

C24_Witness ==
    /\ stats_ret.from_cache /\ stats_ret.data = UsageData
    /\ clock - stats_cache.last_update = ttl - 1
    /\ data_time > stats_cache.last_update

\* ---------------------------------------------------------------- concurrent assignment
\* C25: under every interleaving of concurrent assign_key_to_user calls the calls
\* that succeed return distinct keys, and no key is owned by two users
C25_NoKeyAssignedTwice ==
    /\ \A r1, r2 \in Emails :
          (r1 # r2 /\ req_pc[r1] = "done" /\ req_pc[r2] = "done" /\ req_key[r1] # NoKey)
              => req_key[r1] # req_key[r2]
    /\ \A k \in Keys :
          Cardinality({e \in Emails : k \in SeqToSet(user_keys_cache.data.users[e].api_keys)}) <= 1

\* ---------------------------------------------------------------- conservation
AssignedKeys == {k \in Keys : key_pool_file.assigned[k] # NoEmail}

\* C26: from a generated pool, after any sequence of assign_key_to_user and
\* revoke_key calls made one at a time, unused has no duplicates, unused and the
\* keys of assigned are disjoint, and together they are the generated keys
C26_KeyPoolConserved ==
    (key_pool_file.exists /\ key_pool_file.has_unused) =>
        /\ Cardinality(SeqToSet(key_pool_file.unused)) = Len(key_pool_file.unused)
        /\ SeqToSet(key_pool_file.unused) \cap AssignedKeys = {}
        /\ SeqToSet(key_pool_file.unused) \cup AssignedKeys = generated_keys

C26_Witness ==
    /\ key_ret.op = "revoke" /\ key_ret.ok
    /\ generated_keys = Keys
    /\ Len(key_pool_file.unused) = 1
    /\ Cardinality(AssignedKeys) = MaxKeys - 1
    /\ \E e \in Emails : Len(user_keys_cache.data.users[e].api_keys) = MaxKeys - 1

\* ---------------------------------------------------------------- missed restarts
\* the totals a call of detect_cliproxy_restart received are below its baseline
DecreaseSeen ==
    \/ last_call.current_tokens < last_call.prev.total_tokens
    \/ last_call.current_requests < last_call.prev.total_requests

\* C27 as stated: while the monitor is Tracking, the first successful observation
\* after an upstream restart reports the restart, whatever usage the upstream has
\* accumulated since; here for restarts that lost a non-zero baseline
C27_EveryRestartDetected ==
    \A p \in DOMAIN pc :
        (/\ cur_restarted[p] /\ last_call.called /\ ~last_call.first
         /\ last_call.prev # Totals(0, 0))
            => last_call.ret

\* C27: while the monitor is Tracking, the first successful observation after an
\* upstream restart reports the restart if and only if one of the totals it
\* fetched is below the baseline; a restart after which both totals have reached
\* the baseline again is not reported and no recovery runs
C27_RestartDetectedIffDecreaseSeen ==
    \A p \in DOMAIN pc :
        (cur_restarted[p] /\ last_call.called /\ ~last_call.first) =>
            /\ last_call.ret <=> DecreaseSeen
            /\ pc[p] = "recover" => last_call.ret
            /\ rec[p].called => last_call.ret

C27_Witness ==
    \E p \in DOMAIN pc :
        /\ cur_restarted[p] /\ last_call.called /\ ~last_call.first
        /\ last_call.prev = Totals(1, 0)
        /\ Passed = Totals(1, 0)
        /\ ~last_call.ret
        /\ pc[p] = "broadcast"

\* a capture that ends without opening the file, and a capture that newly returns False
ExportEndsUnopened == exp_pc = "idle" /\ exp_pc' = "idle" /\ exp_ret' # exp_ret

ExportNewlyFails == exp_ret' = <<FALSE>> /\ exp_ret # <<FALSE>>

\* C28: a snapshot capture whose upstream export call fails returns False and leaves
\* the stored snapshot as it was (not truncated, deleted or replaced), so that a
\* recovery run after it reads and posts the same file as one run before it would
C28_FailedExportKeepsSnapshot ==
    [][/\ ExportEndsUnopened => exp_ret' = <<FALSE>>
       /\ (ExportEndsUnopened \/ ExportNewlyFails) =>
              /\ snapshot_file' = snapshot_file
              /\ \A err \in BOOLEAN :
                    import_cliproxy_snapshot(snapshot_file', err)
                        = import_cliproxy_snapshot(snapshot_file, err)]_vars

\* a capture has failed while a non-empty snapshot is stored, and a recovery has read
\* that file, posted it and returned True
C28_Witness ==
    /\ exp_ret = <<FALSE>>
    /\ exp_pc = "idle"
    /\ snapshot_file.status = "complete"
    /\ snapshot_file.total_tokens > 0
    /\ \E p \in DOMAIN pc : rec[p].called /\ rec[p].posted /\ rec[p].ret
                              /\ rec[p].file = "complete"

====
